---- MODULE Spec2Model ----
(***************************************************************************)
(* A model of streamlit_inspector: the formatting helpers (shorten,        *)
(* _prettify_value, _split_format_docstring, _get_signature,               *)
(* wrap_expander, KeyValueTable) and the inspect(obj) routine that walks   *)
(* an object's members and writes one HTML block to the page.              *)
(*                                                                         *)
(* Strings are sequences of one-character strings.  HTML is a sequence of  *)
(* tokens; a token is a record [k, tag, v]: k is "open", "close", "void"   *)
(* or "text", tag is the element (or the kind of text) and v the text.     *)
(***************************************************************************)
EXTENDS Integers, Sequences, FiniteSets, TLC

VARIABLES pc, arg, result, obj, page, ret, exc, table_rows, methods

vars == <<pc, arg, result, obj, page, ret, exc, table_rows, methods>>

(***************************************************************************)
(* Bounds                                                                  *)
(***************************************************************************)
\* longest input string of the string helpers
MaxStrLen == 4
\* most names dir(obj) gives
MaxNames == 2
\* most lines of a docstring
MaxDocLines == 4
\* the model's stand-in for shorten's default length (300 in the source)
ShortenDefault == 3

(***************************************************************************)
(* Strings                                                                 *)
(***************************************************************************)
Strings(alphabet, n) == UNION {[1..k -> alphabet] : k \in 0..n}

RECURSIVE Concat(_)
\* "".join(parts)
Concat(parts) ==
    IF parts = <<>> THEN <<>> ELSE Head(parts) \o Concat(Tail(parts))

\* whether sub occurs in s at position i (1-based)
OccursAt(s, sub, i) ==
    /\ i >= 1
    /\ i + Len(sub) - 1 <= Len(s)
    /\ \A j \in 1..Len(sub) : s[i + j - 1] = sub[j]

\* sub in s
Contains(s, sub) == \E i \in 1..(Len(s) + 1) : OccursAt(s, sub, i)

RECURSIVE ReplaceFrom(_, _, _, _)
\* str.replace scanning from position i: every non-overlapping occurrence of
\* old, left to right, becomes new (old is never empty where this is used)
ReplaceFrom(s, old, new, i) ==
    IF i > Len(s) THEN <<>>
    ELSE IF Len(old) > 0 /\ OccursAt(s, old, i)
         THEN new \o ReplaceFrom(s, old, new, i + Len(old))
         ELSE <<s[i]>> \o ReplaceFrom(s, old, new, i + 1)

\* s.replace(old, new)
Replace(s, old, new) == ReplaceFrom(s, old, new, 1)

(***************************************************************************)
(* shorten                                                                 *)
(***************************************************************************)
\* s.replace("\n", " ")
ReplaceNewlines(s) == [i \in 1..Len(s) |-> IF s[i] = "\n" THEN " " ELSE s[i]]

ShortenOffByOne(s, length) ==
    LET t == ReplaceNewlines(s)
    IN  IF Len(t) >= length
        THEN SubSeq(t, 1, length) \o <<".", ".", ".", ".">>
        ELSE t

\* def shorten(s, length=300)
shorten(s, length) ==
    LET t == ReplaceNewlines(s)
    IN  IF Len(t) > length
        THEN SubSeq(t, 1, length) \o <<".", ".", ".">>
        ELSE t

ShortenChars == {"a", ".", " ", "\n"}

ShortenArgs == [s : Strings(ShortenChars, MaxStrLen), length : 0..ShortenDefault]

\* the variables the inspect routine uses, idle while a helper is exercised
NoObj == [names |-> <<>>]

InspectIdle ==
    /\ obj = NoObj
    /\ page = <<>>
    /\ ret = "unset"
    /\ exc = "none"
    /\ table_rows = <<>>
    /\ methods = <<>>

InitShorten ==
    /\ pc = "ready"
    /\ arg \in ShortenArgs
    /\ result = <<>>
    /\ InspectIdle

\* r = shorten(s, length)
CallShorten ==
    /\ pc = "ready"
    /\ result' = <<shorten(arg.s, arg.length)>>
    /\ pc' = "shortened"
    /\ UNCHANGED <<arg, obj, page, ret, exc, table_rows, methods>>

\* shorten(r, length), applied to the previous result
CallShortenAgain ==
    /\ pc = "shortened"
    /\ result' = Append(result, shorten(result[1], arg.length))
    /\ pc' = "reshortened"
    /\ UNCHANGED <<arg, obj, page, ret, exc, table_rows, methods>>

NextShorten == CallShorten \/ CallShortenAgain

SpecShorten == InitShorten /\ [][NextShorten]_vars

\* C10: shorten(s, length) has no newline and at most length + 3 characters; it
\* is s with newlines replaced by spaces when that has at most length
\* characters, otherwise the first length characters of it followed by "...";
\* shortening the result again gives the same string.
C10_ShortenShape ==
    /\ pc \in {"shortened", "reshortened"} =>
         LET s == arg.s
             n == arg.length
             r == result[1]
         IN  /\ \A i \in 1..Len(r) : r[i] # "\n"
             /\ Len(r) <= n + 3
             /\ Len(s) <= n =>
                  /\ Len(r) = Len(s)
                  /\ \A i \in 1..Len(s) :
                       r[i] = (IF s[i] = "\n" THEN " " ELSE s[i])
             /\ Len(s) > n =>
                  /\ Len(r) = n + 3
                  /\ \A i \in 1..n :
                       r[i] = (IF s[i] = "\n" THEN " " ELSE s[i])
                  /\ \A i \in (n + 1)..(n + 3) : r[i] = "."
    /\ pc = "reshortened" => result[2] = result[1]

\* a string with a newline, longer than length, was cut and shortened twice
C10_Witness ==
    /\ pc = "reshortened"
    /\ Len(arg.s) > arg.length
    /\ arg.length >= 2
    /\ \E i \in 1..arg.length : arg.s[i] = "\n"

(***************************************************************************)
(* _code_format and _prettify_value                                        *)
(***************************************************************************)
\* the HTML escaping the highlighter's formatter applies to each character
EscapeChar(c) ==
    CASE c = "&"  -> <<"&", "a", "m", "p", ";">>
      [] c = "<"  -> <<"&", "l", "t", ";">>
      [] c = ">"  -> <<"&", "g", "t", ";">>
      [] c = "\"" -> <<"&", "q", "u", "o", "t", ";">>
      [] c = "'"  -> <<"&", "#", "3", "9", ";">>
      [] OTHER    -> <<c>>

Escape(s) == Concat([i \in 1..Len(s) |-> EscapeChar(s[i])])

HighlightOpen == "<div class=highlight><pre>"

HighlightClose == "</pre></div>"

\* def _code_format(code): the highlighter's wrapper around the escaped code
_code_format(code) == <<HighlightOpen>> \o Escape(code) \o <<HighlightClose>>

\* the start of a URL, scheme and host, as one symbol
UrlHead == "http://host/"

\* characters that may follow in a URL's path and query
UrlChars == {"x", "&"}

\* validators.url(value)
IsUrl(s) ==
    /\ Len(s) >= 1
    /\ s[1] = UrlHead
    /\ \A i \in 2..Len(s) : s[i] \in UrlChars

Has(s, c) == \E i \in 1..Len(s) : s[i] = c

\* the quotation marks _prettify_value puts around a string
QuoteChar(s) ==
    IF Has(s, "\"") /\ Has(s, "'") THEN <<"\"", "\"", "\"">>
    ELSE IF Has(s, "\"") THEN <<"'">>
    ELSE <<"\"">>

\* f'<a href="{value}">{s}</a>'
Link(value, s) == <<"<a href=\"">> \o value \o <<"\">">> \o s \o <<"</a>">>

\* def _prettify_value(value); value is [isStr, text], text being str(value)
_prettify_value(value) ==
    LET s == shorten(value.text, ShortenDefault)
        q == QuoteChar(s)
    IN  IF value.isStr
        THEN IF IsUrl(value.text)
             THEN Replace(_code_format(q \o s \o q), s, Link(value.text, s))
             ELSE _code_format(q \o s \o q)
        ELSE _code_format(s)

PrettifyChars == {UrlHead, "x", "&", "\"", "'", "\n"}

PrettifyArgs == [isStr : BOOLEAN, text : Strings(PrettifyChars, MaxStrLen)]

InitPrettify ==
    /\ pc = "ready"
    /\ arg \in PrettifyArgs
    /\ result = <<>>
    /\ InspectIdle

\* r = _prettify_value(value)
CallPrettify ==
    /\ pc = "ready"
    /\ result' = _prettify_value(arg)
    /\ pc' = "prettified"
    /\ UNCHANGED <<arg, obj, page, ret, exc, table_rows, methods>>

NextPrettify == CallPrettify

SpecPrettify == InitPrettify /\ [][NextPrettify]_vars

\* the result holds a link to value around the displayed (shortened) text
HasLink(r, value) ==
    Contains(r, Link(value, shorten(value, ShortenDefault)))

\* the result is the highlighted, quoted text and holds no link
IsQuotedCode(r, value) ==
    LET s == shorten(value, ShortenDefault)
    IN  /\ r = _code_format(QuoteChar(s) \o s \o QuoteChar(s))
        /\ ~Has(r, "</a>")

\* C4: _prettify_value renders every string that is a valid URL as a link
\* around the displayed text, also a URL longer than the shortening length
\* and a URL with characters the highlighter escapes; every other string is
\* rendered as quoted, highlighted code with no link.
C4_UrlsBecomeLinks ==
    (pc = "prettified" /\ arg.isStr) =>
        IF IsUrl(arg.text)
        THEN HasLink(result, arg.text)
        ELSE IsQuotedCode(result, arg.text)

(***************************************************************************)
(* HTML tokens                                                             *)
(***************************************************************************)
Open(tag) == [k |-> "open", tag |-> tag, v |-> <<>>]

OpenStyled(tag, style) == [k |-> "open", tag |-> tag, v |-> style]

Close(tag) == [k |-> "close", tag |-> tag, v |-> <<>>]

Void(tag) == [k |-> "void", tag |-> tag, v |-> <<>>]

Text(kind, v) == [k |-> "text", tag |-> kind, v |-> v]

\* highlighted code, as one piece of text
Code(code) == Text("code", _code_format(code))

\* def wrap_expander(summary, details, indent=False); the details are followed
\* by a second <div>, not by </div>
wrap_expander(summary, details, indent) ==
    <<Open("details"), Open("summary")>> \o summary
    \o <<Close("summary"),
         OpenStyled("div", IF indent THEN <<"padding-left: 1.55rem;">> ELSE <<>>)>>
    \o details \o <<Open("div"), Close("details")>>

(***************************************************************************)
(* Docstrings.  A docstring is [none, lines]: none for getdoc's None,      *)
(* else the lines of the string; a line is "" (empty), " " (only white     *)
(* space) or a word of text.                                               *)
(***************************************************************************)
NoDoc == [none |-> TRUE, lines |-> <<>>]

Doc(lines) == [none |-> FALSE, lines |-> lines]

IsBlank(line) == line \in {"", " "}

\* the first i with an empty line strictly inside: where "\n\n" first occurs
\* in the joined lines; 0 when it does not occur
FirstBreak(lines) ==
    LET at == {i \in 2..(Len(lines) - 1) : lines[i] = ""}
    IN  IF at = {} THEN 0 ELSE CHOOSE i \in at : \A j \in at : i <= j

\* doc.partition("\n\n"): the lines before and after the first blank line
Partition(lines) ==
    LET i == FirstBreak(lines)
    IN  IF i = 0
        THEN [first |-> lines, following |-> <<>>]
        ELSE [first |-> SubSeq(lines, 1, i - 1),
              following |-> SubSeq(lines, i + 1, Len(lines))]

RECURSIVE StripBlank(_)
\* cleandoc(part).strip(): blank lines at either end are dropped
StripBlank(lines) ==
    IF lines = <<>> THEN <<>>
    ELSE IF IsBlank(Head(lines)) THEN StripBlank(Tail(lines))
    ELSE IF IsBlank(lines[Len(lines)]) THEN StripBlank(SubSeq(lines, 1, Len(lines) - 1))
    ELSE lines

\* def _split_format_docstring(doc)
_split_format_docstring(lines) ==
    LET p == Partition(lines)
    IN  [first |-> StripBlank(p.first), following |-> StripBlank(p.following)]

GraySpan(lines) == <<OpenStyled("span", <<"gray">>), Text("doc", lines), Close("span")>>

\* inspect, the title and the object's docstring
TitleSection(title, doc) ==
    LET d == _split_format_docstring(doc.lines)
    IN  IF ~doc.none
        THEN IF d.first # <<>> /\ d.following # <<>>
             THEN wrap_expander(
                      <<Open("b"), Text("title", title \o <<":">>), Close("b")>>
                          \o GraySpan(d.first),
                      GraySpan(d.following), FALSE)
             ELSE IF d.first # <<>>
             THEN <<Open("b"), Text("title", title \o <<":">>), Close("b")>>
                      \o GraySpan(d.first)
             ELSE <<Open("b"), Text("title", title), Close("b")>>
        ELSE <<Open("b"), Text("title", title), Close("b")>>

(***************************************************************************)
(* Values.  What getattr gives: a record [k, typeName, isStr, text,        *)
(* isclass, sig, doc, name]; k is "raise" when the access raises.          *)
(***************************************************************************)
Raises ==
    [k |-> "raise", typeName |-> <<>>, isStr |-> FALSE, text |-> <<>>,
     isclass |-> FALSE, sig |-> "TypeError", doc |-> NoDoc, name |-> <<>>]

NoneV ==
    [k |-> "none", typeName |-> <<"NoneType">>, isStr |-> FALSE,
     text |-> <<"None">>, isclass |-> FALSE, sig |-> "TypeError", doc |-> NoDoc,
     name |-> <<>>]

IntV ==
    [k |-> "data", typeName |-> <<"int">>, isStr |-> FALSE, text |-> <<"7">>,
     isclass |-> FALSE, sig |-> "TypeError", doc |-> Doc(<<"t", "", "u">>),
     name |-> <<>>]

StrV ==
    [k |-> "data", typeName |-> <<"str">>, isStr |-> TRUE, text |-> <<"x">>,
     isclass |-> FALSE, sig |-> "TypeError", doc |-> Doc(<<"t", "", "u">>),
     name |-> <<>>]

\* the string that stands for a value that could not be read
Placeholder ==
    [k |-> "data", typeName |-> <<"str">>, isStr |-> TRUE,
     text |-> <<"Couldn't parse this attribute's value">>,
     isclass |-> FALSE, sig |-> "TypeError", doc |-> Doc(<<"t", "", "u">>),
     name |-> <<>>]

\* a callable: a class or not, what signature() does with it ("sig": gives a
\* signature, "ValueError", "TypeError"), its docstring, its __name__ (<<>>:
\* it has none)
Fn(isclass, sig, doc, name) ==
    [k |-> "callable", typeName |-> <<"function">>, isStr |-> FALSE,
     text |-> <<"<function>">>, isclass |-> isclass, sig |-> sig, doc |-> doc,
     name |-> name]

\* callable(value)
Callable(v) == v.k = "callable"

\* def _get_signature(name, obj): [none, text]; none for the None it returns
\* when signature() raises TypeError
_get_signature(name, v) ==
    IF v.sig = "TypeError"
    THEN [none |-> TRUE, text |-> <<>>]
    ELSE LET _signature == IF v.sig = "ValueError" THEN <<"(...)">> ELSE <<"(self)">>
             qualname == IF v.name = <<>> THEN name ELSE v.name
             prefix == IF v.isclass THEN <<"class">> ELSE <<"def">>
         IN  [none |-> FALSE, text |-> prefix \o <<" ">> \o qualname \o _signature]

(***************************************************************************)
(* KeyValueTable                                                           *)
(***************************************************************************)
\* KeyValueTable.add_row(key, value): the row's markup
add_row(key, value) ==
    <<Open("tr"), Open("td")>> \o key
    \o <<Close("td"), Open("td"), Text("eq", <<"=">>), Close("td"), Open("td")>>
    \o value \o <<Close("td"), Close("tr")>>

\* KeyValueTable.__str__: "" for a table with no rows
KeyValueTableStr(rows) ==
    IF Len(rows) = 0
    THEN <<>>
    ELSE <<Open("style"), Text("css", <<"keyvaluetable">>), Close("style"),
           OpenStyled("table", <<"keyvaluetable">>)>>
         \o Concat(rows) \o <<Close("table")>>

(***************************************************************************)
(* Objects.  An object is [names, get, doc, callable, str, typeName, repr] *)
(* names is dir(obj); get[i] is what the first, second and third           *)
(* getattr(obj, names[i]) of a call gives.                                 *)
(***************************************************************************)
StartsWithUnderscoreNever(name) == FALSE

\* attr.startswith("_")
StartsWithUnderscore(name) == Len(name) > 0 /\ name[1] = "_"

\* the value the attribute loop works with: the placeholder when getattr raises
Resolve(v) == IF v.k = "raise" THEN Placeholder ELSE v

AttrRowKeepsCallables(name, got) ==
    LET value == Resolve(got)
    IN  IF ~StartsWithUnderscore(name)
        THEN <<[name |-> name, value |-> value,
                html |-> add_row(<<Text("key", name)>>,
                    <<Text("value",
                           _prettify_value([isStr |-> value.isStr,
                                            text |-> value.text]))>>)]>>
        ELSE <<>>

\* the attribute loop's body for one name: its row, or nothing
AttrRow(name, got) ==
    LET value == Resolve(got)
        type_str ==
            IF value.k = "none" THEN <<>>
            ELSE <<OpenStyled("span", <<"color: #01a9aa">>),
                   Text("type", value.typeName), Close("span")>>
        key == <<Text("key", name \o (IF type_str # <<>> THEN <<": ">> ELSE <<>>))>>
               \o type_str
    IN  IF ~StartsWithUnderscore(name) /\ ~Callable(value)
        THEN <<[name |-> name, value |-> value,
                html |-> add_row(key,
                    <<Text("value",
                           _prettify_value([isStr |-> value.isStr,
                                            text |-> value.text]))>>)]>>
        ELSE <<>>

RECURSIVE AttrRows(_, _)
\* for attr in dir(obj): ... attr_table.add_row(...), from the i-th name on
AttrRows(o, i) ==
    IF i > Len(o.names) THEN <<>>
    ELSE AttrRow(o.names[i], o.get[i][1]) \o AttrRows(o, i + 1)

MethodSpan(lines) ==
    <<OpenStyled("span", <<"color: #84858c">>), Text("doc", lines), Close("span")>>

\* the method loop's formatting of one callable: [raised, exc, html]
MethodText(name, value) ==
    LET value_text == _get_signature(name, value)
        d == _split_format_docstring(value.doc.lines)
        ok(html) == [raised |-> FALSE, exc |-> "none", html |-> html]
        \* None + ":" and the highlighter on None both raise
        concatNone == [raised |-> TRUE, exc |-> "TypeError: None + str", html |-> <<>>]
        formatNone == [raised |-> TRUE, exc |-> "highlight(None)", html |-> <<>>]
    IN  IF ~value.doc.none
        THEN IF d.first # <<>> /\ d.following # <<>>
             THEN IF value_text.none THEN concatNone
                  ELSE ok(wrap_expander(
                           <<Code(value_text.text \o <<":">>)>> \o MethodSpan(d.first),
                           MethodSpan(d.following), TRUE))
             ELSE IF d.first # <<>>
             THEN IF value_text.none THEN concatNone
                  ELSE ok(<<Code(value_text.text \o <<":">>)>> \o MethodSpan(d.first))
             ELSE IF value_text.none THEN formatNone
                  ELSE ok(<<Code(value_text.text)>>)
        ELSE IF value_text.none THEN formatNone
             ELSE ok(<<Code(value_text.text)>>)

\* the method loop's body for one name: [raised, exc, entries]; the two
\* getattr calls of lines 291 and 292 are the second and third access
MethodStep(name, got) ==
    LET none == [raised |-> FALSE, exc |-> "none", entries |-> <<>>]
        fail(e) == [raised |-> TRUE, exc |-> e, entries |-> <<>>]
    IN  IF StartsWithUnderscore(name) THEN none
        ELSE IF got[2].k = "raise" THEN fail("getattr")
        ELSE IF ~Callable(got[2]) THEN none
        ELSE IF got[3].k = "raise" THEN fail("getattr")
        ELSE LET m == MethodText(name, got[3])
             IN  IF m.raised THEN fail(m.exc)
                 ELSE [raised |-> FALSE, exc |-> "none",
                       entries |-> <<[name |-> name, value |-> got[3],
                                      html |-> <<Open("div")>> \o m.html
                                               \o <<Close("div")>>]>>]

RECURSIVE MethodEntries(_, _)
\* for attr in dir(obj): ... methods_text += ..., from the i-th name on; the
\* entries made before an exception are kept in the result
MethodEntries(o, i) ==
    IF i > Len(o.names) THEN [raised |-> FALSE, exc |-> "none", entries |-> <<>>]
    ELSE LET step == MethodStep(o.names[i], o.get[i])
             rest == MethodEntries(o, i + 1)
         IN  IF step.raised THEN step
             ELSE [raised |-> rest.raised, exc |-> rest.exc,
                   entries |-> step.entries \o rest.entries]

Divider == Void("hr")

Htmls(items) == Concat([i \in 1..Len(items) |-> items[i].html])

NeedsDividerEither(attr_text, methods_text) == attr_text # <<>> \/ methods_text # <<>>

\* if attr_text and methods_text
NeedsDivider(attr_text, methods_text) == attr_text # <<>> /\ methods_text # <<>>

\* inspect(obj) up to the write: [raised, exc, s, rows, entries]
Inspect(o) ==
    LET title == IF o.callable THEN o.str ELSE o.typeName
        head == <<OpenStyled("div", <<"border">>), Code(o.repr), Divider>>
                \o TitleSection(title, o.doc) \o <<Divider>>
        rows == AttrRows(o, 1)
        attr_text == KeyValueTableStr([i \in 1..Len(rows) |-> rows[i].html])
        m == MethodEntries(o, 1)
        methods_text == Htmls(m.entries)
    IN  [raised |-> m.raised, exc |-> m.exc, rows |-> rows, entries |-> m.entries,
         s |-> head \o attr_text
               \o (IF NeedsDivider(attr_text, methods_text) THEN <<Divider>> ELSE <<>>)
               \o methods_text \o <<Close("div")>>]

(***************************************************************************)
(* The objects inspect is called with                                      *)
(***************************************************************************)
\* the names an object may have, in dir's (sorted) order
AllNames == << <<"_", "p">>, <<"a">>, <<"b">> >>

RECURSIVE Ascending(_, _)
\* the numbers of set S from lo on, ascending
Ascending(S, lo) ==
    IF \A i \in S : i < lo THEN <<>>
    ELSE IF lo \in S THEN <<lo>> \o Ascending(S, lo + 1)
    ELSE Ascending(S, lo + 1)

\* what dir(obj) may give: up to MaxNames of the names, sorted
Dirs ==
    {[j \in 1..Cardinality(S) |-> AllNames[Ascending(S, 1)[j]]] :
        S \in {T \in SUBSET (1..Len(AllNames)) : Cardinality(T) <= MaxNames}}

Sigs == {"sig", "ValueError", "TypeError"}

\* docstrings of members: none, one paragraph, two paragraphs, a blank first
\* paragraph (getdoc leaves a line of white space in front of a blank line)
MemberDocs == {NoDoc, Doc(<<"t">>), Doc(<<"t", "", "u">>), Doc(<<" ", "", "u">>)}

\* the callables attribute n may hold
Callables(n) ==
    {Fn(c, s, NoDoc, n) : c \in BOOLEAN, s \in Sigs}
    \cup {Fn(FALSE, s, d, n) : s \in Sigs, d \in MemberDocs}
    \cup {Fn(FALSE, "sig", NoDoc, nm) : nm \in {<<"f">>, <<>>}}

\* an attribute that gives the same on every access
Stable(v) == <<v, v, v>>

\* attributes whose accesses differ (a property that computes its value)
Unstable(n) ==
    LET f == Fn(FALSE, "sig", NoDoc, n)
    IN  {<<Raises, f, f>>, <<IntV, f, f>>, <<f, IntV, IntV>>, <<f, f, IntV>>,
         <<f, f, Raises>>, <<IntV, Raises, Raises>>, <<Raises, IntV, IntV>>}

Behaviours(n) ==
    {Stable(v) : v \in {Raises, NoneV, IntV, StrV} \cup Callables(n)}
    \cup Unstable(n)

RECURSIVE Gets(_)
\* the attributes of an object with the given names
Gets(names) ==
    IF names = <<>> THEN {<<>>}
    ELSE {<<b>> \o g : b \in Behaviours(Head(names)), g \in Gets(Tail(names))}

Objects ==
    UNION {[names : {d}, get : Gets(d), doc : MemberDocs, callable : BOOLEAN,
            str : {<<"Balloon()">>}, typeName : {<<"Balloon">>},
            repr : {<<"Balloon()">>}] : d \in Dirs}

IsStable(o) == \A i \in 1..Len(o.get) : o.get[i] = Stable(o.get[i][1])

(***************************************************************************)
(* inspect(obj)                                                            *)
(***************************************************************************)
StyleBlock(css) == <<Open("style"), Text("css", <<css>>), Close("style")>>

\* the page after the module is imported: its two st.markdown calls
ImportedPage == <<StyleBlock("pygments"), StyleBlock("inspector")>>

NoArg == [isStr |-> FALSE, text |-> <<>>]

Init ==
    /\ pc = "ready"
    /\ obj \in Objects
    /\ page = ImportedPage
    /\ ret = "unset"
    /\ exc = "none"
    /\ table_rows = <<>>
    /\ methods = <<>>
    /\ arg = NoArg
    /\ result = <<>>

PageAfterAlwaysWrites(p, r) == Append(p, r.s)

\* st.write(s, unsafe_allow_html=True) is the last statement: a call that
\* raised has not reached it
PageAfter(p, r) == IF r.raised THEN p ELSE Append(p, r.s)

\* inspect(obj) runs to its end; r is what the call computed
InspectReturns(r) ==
    /\ pc = "ready"
    /\ ~r.raised
    /\ page' = PageAfter(page, r)
    /\ table_rows' = r.rows
    /\ methods' = r.entries
    /\ ret' = "None"
    /\ pc' = "returned"
    /\ UNCHANGED <<arg, result, obj, exc>>

\* inspect(obj) raises; r is what the call computed up to there
InspectRaises(r) ==
    /\ pc = "ready"
    /\ r.raised
    /\ page' = PageAfter(page, r)
    /\ table_rows' = r.rows
    /\ methods' = r.entries
    /\ exc' = r.exc
    /\ pc' = "raised"
    /\ UNCHANGED <<arg, result, obj, ret>>

Next == \E r \in {Inspect(obj)} : InspectReturns(r) \/ InspectRaises(r)

Spec == Init /\ [][Next]_vars

(***************************************************************************)
(* The docstring sections on their own                                     *)
(***************************************************************************)
DocLines == {"", " ", "t", "u"}

\* what getdoc may give: None, or lines that neither start nor end with an
\* empty line (cleandoc drops those; a line of white space may stay)
DocInputs ==
    {NoDoc} \cup
    {Doc(l) : l \in {x \in Strings(DocLines, MaxDocLines) :
                        x = <<>> \/ (x[1] # "" /\ x[Len(x)] # "")}}

InitDoc ==
    /\ pc = "ready"
    /\ arg \in DocInputs
    /\ result = <<>>
    /\ InspectIdle

\* the title section of inspect, for an object with docstring arg
RenderTitle ==
    /\ pc = "ready"
    /\ result' = TitleSection(<<"Balloon">>, arg)
    /\ pc' = "title"
    /\ UNCHANGED <<arg, obj, page, ret, exc, table_rows, methods>>

\* the method loop's text for a function with docstring arg
RenderMethod ==
    /\ pc = "ready"
    /\ result' = MethodText(<<"inflate">>, Fn(FALSE, "sig", arg, <<"inflate">>)).html
    /\ pc' = "method"
    /\ UNCHANGED <<arg, obj, page, ret, exc, table_rows, methods>>

NextDoc == RenderTitle \/ RenderMethod

SpecDoc == InitDoc /\ [][NextDoc]_vars

HasToken(html, t) == \E i \in 1..Len(html) : html[i] = t

\* a details/summary section was emitted
Collapsible(html) == HasToken(html, Open("details"))

\* the first paragraph was emitted outside a details/summary section
PlainSummary(html) ==
    /\ ~Collapsible(html)
    /\ \E i \in 1..Len(html) : html[i].tag = "doc"

\* C3: for the object's docstring and for a method's docstring, split at the
\* first blank line into a first paragraph and a remainder, a collapsible
\* details/summary section is emitted if and only if the remainder is not
\* empty, and a plain summary only when there is no remainder.
C3_CollapsibleIffRemainder ==
    (pc \in {"title", "method"} /\ ~arg.none) =>
        LET d == _split_format_docstring(arg.lines)
        IN  /\ Collapsible(result) <=> d.following # <<>>
            /\ PlainSummary(result) => d.following = <<>>

(***************************************************************************)
(* Properties of inspect(obj)                                              *)
(***************************************************************************)
\* the block the call wrote
Block == page[Len(page)]

Public(o) == {i \in 1..Len(o.names) : ~StartsWithUnderscore(o.names[i])}

IsKey(t) == t.tag = "key"

IsEntryCode(t) == t.tag = "code"

IsPrefix(p, s) == Len(p) <= Len(s) /\ SubSeq(s, 1, Len(p)) = p

Names(items) == [i \in 1..Len(items) |-> items[i].name]

\* the keys of the attribute table, read off the block
BlockKeys == SelectSeq(Block, IsKey)

\* the highlighted signatures of the method list, read off the block (the
\* block's first piece of code is the representation)
BlockSignatures == Tail(SelectSeq(Block, IsEntryCode))

\* C1: inspect(obj) does not raise because an attribute fails to resolve: for
\* every name of dir(obj) whose getattr raises, public or not, the failure is
\* caught, the placeholder stands for the value, and the call runs to its end
\* and writes its block.  (Stated for objects whose attributes give the same
\* on every access, so that a violation is a plain failing attribute.)
C1_FailingAttributeNeverRaises ==
    IsStable(obj) =>
    /\ exc # "getattr"
    /\ pc = "returned" =>
         \A i \in Public(obj) :
             obj.get[i][1].k = "raise" =>
                 \E j \in 1..Len(table_rows) :
                     /\ table_rows[j].name = obj.names[i]
                     /\ table_rows[j].value = Placeholder

\* C2: in the block written, no name starting with an underscore is in the
\* attribute table or the method list; every row is for a name whose value is
\* not callable and every entry for a name whose value is callable.
C2_OnlyPublicSplitByCallable ==
    pc = "returned" =>
        /\ Len(BlockKeys) = Len(table_rows)
        /\ Len(BlockSignatures) = Len(methods)
        /\ \A j \in 1..Len(table_rows) :
               /\ IsPrefix(table_rows[j].name, BlockKeys[j].v)
               /\ BlockKeys[j].v[1] # "_"
               /\ \E i \in 1..Len(obj.names) :
                      /\ obj.names[i] = table_rows[j].name
                      /\ obj.names[i][1] # "_"
                      /\ Resolve(obj.get[i][1]).k # "callable"
        /\ \A j \in 1..Len(methods) :
               \E i \in 1..Len(obj.names) :
                   /\ obj.names[i] = methods[j].name
                   /\ obj.names[i][1] # "_"
                   /\ obj.get[i][3].k = "callable"

\* a block was written for an object with a private name, and a row or an
\* entry is in it
C2_Witness ==
    /\ pc = "returned"
    /\ \E i \in 1..Len(obj.names) : obj.names[i][1] = "_"
    /\ Len(table_rows) + Len(methods) >= 1

RECURSIVE Nested(_, _, _)
\* whether the tokens from the i-th on close what is open, innermost first,
\* and leave nothing open; stack holds the open elements, innermost last
Nested(html, i, stack) ==
    IF i > Len(html) THEN stack = <<>>
    ELSE IF html[i].k = "open" THEN Nested(html, i + 1, Append(stack, html[i].tag))
    ELSE IF html[i].k = "close"
         THEN /\ stack # <<>>
              /\ stack[Len(stack)] = html[i].tag
              /\ Nested(html, i + 1, SubSeq(stack, 1, Len(stack) - 1))
    ELSE Nested(html, i + 1, stack)

WellNested(html) == Nested(html, 1, <<>>)

\* C5: every block inspect writes is well-nested HTML: each element the
\* routine opens is closed by a matching end tag in nesting order, in every
\* branch, the one that uses wrap_expander included.
C5_BlockWellNested == pc = "returned" => WellNested(Block)

\* C6: a call that returns normally returns None and has appended exactly one
\* block, a whole one, to the page; a call that raises has appended nothing.
C6_OneBlockOrNothing ==
    /\ pc = "ready" => page = ImportedPage
    /\ pc = "returned" =>
         /\ ret = "None"
         /\ Len(page) = Len(ImportedPage) + 1
         /\ SubSeq(page, 1, Len(ImportedPage)) = ImportedPage
         /\ Block[1] = OpenStyled("div", <<"border">>)
         /\ Block[Len(Block)] = Close("div")
    /\ pc = "raised" => (page = ImportedPage /\ ret = "unset")

\* a call raised after it had built rows of the attribute table
C6_Witness == pc = "raised" /\ table_rows # <<>>

\* the positions of the block's dividers, ascending
Dividers == Ascending({i \in 1..Len(Block) : Block[i] = Divider}, 1)

TableTags == {"style", "css", "table", "tr", "td", "key", "eq", "type", "value"}

\* C7: the block is one bordered div holding, in this order, the
\* representation, a divider, the title with the docstring, a divider, the
\* attribute table and the method list; a divider stands between table and
\* list exactly when both are non-empty, and a table with no rows is the
\* empty string.
C7_SectionsInOrder ==
    pc = "returned" =>
        LET B == Block
            H == Dividers
            both == table_rows # <<>> /\ methods # <<>>
            tableAt == {i \in 1..Len(B) : B[i].tag \in TableTags}
            entryAt == {i \in 3..Len(B) : B[i].tag = "code"}
            titleAt == {i \in 1..Len(B) : B[i].tag = "title"}
        IN  /\ B[1] = OpenStyled("div", <<"border">>)
            /\ B[Len(B)] = Close("div")
            /\ \A i \in 2..Len(B) : B[i] # B[1]
            /\ B[2] = Code(obj.repr)
            /\ Len(H) = (IF both THEN 3 ELSE 2)
            /\ H[1] = 3
            /\ Cardinality(titleAt) = 1
            /\ \A i \in titleAt : H[1] < i /\ i < H[2]
            /\ \A i \in tableAt : H[2] < i /\ (both => i < H[3])
            /\ \A i \in entryAt : H[Len(H)] < i /\ \A j \in tableAt : j < i
            /\ (table_rows = <<>>) <=> (tableAt = {})
            /\ (methods = <<>>) <=> (entryAt = {})
            /\ Cardinality({i \in tableAt : B[i].tag = "table"}) <= 2

\* a block with both an attribute table and a method list
C7_Witness == pc = "returned" /\ table_rows # <<>> /\ methods # <<>>

\* the entry the method list should hold for callable v under name n
ExpectedSignature(n, v) ==
    (IF v.isclass THEN <<"class">> ELSE <<"def">>) \o <<" ">>
    \o (IF v.name = <<>> THEN n ELSE v.name)
    \o (IF v.sig = "ValueError" THEN <<"(...)">> ELSE <<"(self)">>)

\* C8: for every public callable member, whatever signature introspection
\* does with it (a signature, ValueError, TypeError), inspect completes and
\* the method list holds one entry for it, showing class or def, the name and
\* the signature, "(...)" when introspection raises ValueError.  (Stated for
\* objects whose attributes all resolve, the same on every access.)
C8_EntryForEveryCallable ==
    (/\ pc # "ready"
     /\ IsStable(obj)
     /\ \A i \in 1..Len(obj.names) : obj.get[i][1].k # "raise") =>
        /\ pc = "returned"
        /\ \A i \in Public(obj) :
               Callable(obj.get[i][1]) =>
                   /\ Cardinality({j \in 1..Len(methods) :
                                      methods[j].name = obj.names[i]}) = 1
                   /\ \E j \in 1..Len(methods) :
                          /\ methods[j].name = obj.names[i]
                          /\ \E t \in 1..Len(methods[j].html) :
                                 /\ methods[j].html[t].tag = "code"
                                 /\ Contains(methods[j].html[t].v,
                                             ExpectedSignature(obj.names[i],
                                                               obj.get[i][1]))

InRows(n) == \E j \in 1..Len(table_rows) : table_rows[j].name = n

InMethods(n) == \E j \in 1..Len(methods) : methods[j].name = n

\* every public name of dir(obj) is in exactly one of the two sections, once,
\* and both sections follow dir's order
ExactlyOnce ==
    /\ Names(table_rows) = SelectSeq(obj.names, InRows)
    /\ Names(methods) = SelectSeq(obj.names, InMethods)
    /\ \A i \in 1..Len(obj.names) :
           IF StartsWithUnderscore(obj.names[i])
           THEN ~InRows(obj.names[i]) /\ ~InMethods(obj.names[i])
           ELSE InRows(obj.names[i]) # InMethods(obj.names[i])

\* C9 as stated: when inspect(obj) returns normally, every public name is in
\* the output exactly once, as a row or as an entry, in dir order, although
\* the two passes call dir and getattr again.
C9_ExactlyOnceAsStated == pc = "returned" => ExactlyOnce

\* C9 as amended: the same for an object whose attributes give the same on
\* every access of the call.
C9_ExactlyOnceWhenStable == (pc = "returned" /\ IsStable(obj)) => ExactlyOnce

\* a block for an object with two public names, one a row, one an entry
C9_Witness ==
    /\ pc = "returned"
    /\ IsStable(obj)
    /\ Len(table_rows) = 1
    /\ Len(methods) = 1

====
